---- MODULE Spec2Model ----
(***************************************************************************)
(* Zettelkasten store: the SQLite note repository (create / read / update  *)
(* / delete / find_linked_notes), the markdown codec of the exporter and   *)
(* the importer, the import operations built on them (single file,         *)
(* directory, restore, merge) and the migrator's decode and verification.  *)
(*                                                                         *)
(* Text is a sequence of symbols.  A symbol is one character ("#", " ",    *)
(* "-", ",", "\n") or a run of characters the code never looks into (a     *)
(* word, an id, "[[", "]]", "Links").                                       *)
(***************************************************************************)
EXTENDS Integers, Sequences, FiniteSets, TLC

VARIABLES notes, tags, note_tags, links, last, codec, import_stats, call, report,
          export_stats, export_dir, sessions

vars == <<notes, tags, note_tags, links, last, codec, import_stats, call, report,
          export_stats, export_dir, sessions>>
store == <<notes, tags, note_tags, links>>

-----------------------------------------------------------------------------
(* Bounds and input domains                                                *)

MaxLinks == 2
MaxTime == 2
MaxImports == 3
MaxCalls == 2
MaxMigrations == 2

\* get_all and validate_links ask list() for this many notes.
ListAll == 10000

Ids == {"a", "b", "c"}
Times == 2..MaxTime
NoteTypes == {"fleeting", "literature", "permanent"}
LinkTypes == {"reference", "extends", "contrast"}
None == "None"
NL == "\n"

\* An optional string: absent, or present with its text (possibly empty).
NoDesc == <<>>
Some(s) == <<s>>

\* The links of the argument notes: a plain reference to "b" and a described
\* link to "c".
LinkVals ==
    { [target_id |-> "b", link_type |-> "reference", description |-> NoDesc,
       created_at |-> 1],
      [target_id |-> "c", link_type |-> "extends", description |-> Some(<<"d">>),
       created_at |-> 1] }

LinkTo(t) ==
    [target_id |-> t, link_type |-> "reference", description |-> NoDesc,
     created_at |-> 1]

RECURSIVE SeqsUpTo(_, _)
SeqsUpTo(S, n) ==
    IF n = 0 THEN {<<>>}
    ELSE LET shorter == SeqsUpTo(S, n - 1)
         IN  shorter \cup {Append(s, x) : s \in {q \in shorter : Len(q) = n - 1}, x \in S}

\* The link lists a note with the given id is written with: "a" carries
\* every list over LinkVals (the same link twice included), "b" links back
\* to "a" or to itself, "c" links nowhere.
LinkLists(id) ==
    IF id = "a" THEN SeqsUpTo(LinkVals, MaxLinks)
    ELSE IF id = "b" THEN {<<>>, <<LinkTo("a")>>, <<LinkTo("b")>>}
    ELSE {<<>>}

\* Everything of a Note but its id and its links.
Body1 ==
    [title |-> <<"t1">>, content |-> <<"w">>, note_type |-> "permanent",
     tags |-> {"x", "y"}, created_at |-> 1, updated_at |-> 1,
     metadata |-> {<<"author", "ann">>}]
Body2 ==
    [title |-> <<"t2">>, content |-> <<"w", " ", "v">>, note_type |-> "literature",
     tags |-> {"z"}, created_at |-> 1, updated_at |-> 1,
     metadata |-> {}]

MkNote(id, b, ls) ==
    [id |-> id, title |-> b.title, content |-> b.content, note_type |-> b.note_type,
     tags |-> b.tags, links |-> ls, created_at |-> b.created_at,
     updated_at |-> b.updated_at, metadata |-> b.metadata]

WithSource(id, ls) ==
    [i \in 1..Len(ls) |-> [source_id |-> id] @@ ls[i]]

\* The notes handed to create and update: the first body with every link
\* list, the second body without links.
ArgNotes ==
    UNION {{MkNote(id, Body1, WithSource(id, ls)) : ls \in LinkLists(id)} : id \in Ids}
    \cup {MkNote(id, Body2, <<>>) : id \in Ids}

NoNote == [id |-> None]


-----------------------------------------------------------------------------
(* Text                                                                    *)

IsSpace(c) == c \in {" ", NL}

RECURSIVE LStrip(_)
LStrip(s) == IF s # <<>> /\ IsSpace(Head(s)) THEN LStrip(Tail(s)) ELSE s

RECURSIVE RStrip(_)
RStrip(s) ==
    IF s # <<>> /\ IsSpace(s[Len(s)]) THEN RStrip(SubSeq(s, 1, Len(s) - 1)) ELSE s

\* str.strip()
Strip(s) == RStrip(LStrip(s))

\* sub in s
Contains(s, sub) ==
    \E i \in 1..(Len(s) - Len(sub) + 1) : SubSeq(s, i, i + Len(sub) - 1) = sub

\* s.startswith(p)
StartsWith(s, p) == Len(s) >= Len(p) /\ SubSeq(s, 1, Len(p)) = p

\* The position of the first occurrence of the symbol c in s, 0 when absent.
IndexOf(s, c) ==
    IF \E i \in 1..Len(s) : s[i] = c
    THEN CHOOSE i \in 1..Len(s) : s[i] = c /\ \A j \in 1..(i - 1) : s[j] # c
    ELSE 0

\* s.split(c): the pieces of s between the occurrences of the symbol c.
RECURSIVE Split(_, _)
Split(s, c) ==
    LET i == IndexOf(s, c)
    IN  IF i = 0 THEN <<s>>
        ELSE <<SubSeq(s, 1, i - 1)>> \o Split(SubSeq(s, i + 1, Len(s)), c)

\* s.split(c, 1)
SplitOnce(s, c) ==
    LET i == IndexOf(s, c)
    IN  IF i = 0 THEN <<s>>
        ELSE <<SubSeq(s, 1, i - 1), SubSeq(s, i + 1, Len(s))>>

\* sep.join(parts)
RECURSIVE Join(_, _)
Join(parts, sep) ==
    IF parts = <<>> THEN <<>>
    ELSE IF Len(parts) = 1 THEN parts[1]
    ELSE parts[1] \o sep \o Join(Tail(parts), sep)

\* A string the code uses as a name (an id, a tag name): a one-symbol
\* string is that word; any longer string is some other name.
Word(s) == IF Len(s) = 1 THEN s[1] ELSE "<text>"

LinksHeading == <<"#", "#", " ", "Links">>
H2 == <<"#", "#", " ">>
Bullet == <<"-", " ">>

\* The order in which a collection of tag names is iterated.
RECURSIVE SetToSeq(_)
SetToSeq(S) ==
    IF S = {} THEN <<>>
    ELSE LET x == CHOOSE y \in S : TRUE
         IN  <<x>> \o SetToSeq(S \ {x})

-----------------------------------------------------------------------------
(* The markdown codec                                                      *)
(*                                                                         *)
(* A file is its front matter and its body: [header, body].  A header      *)
(* field is absent (<<>>) or present (<<value>>); extra holds the other    *)
(* keys.  A timestamp is written in ISO form and read back from it.        *)

ReservedKeys == {"id", "title", "type", "tags", "created", "updated"}
MigrationKeys == {"migrated_from", "migration_date"}

\* datetime.isoformat() and datetime.fromisoformat()
IsoFormat(t) == [iso |-> t]
IsIso(v) == DOMAIN v = {"iso"}
FromIsoFormat(v) == v.iso

\* frontmatter.dumps(Post(content, **metadata)): the template
\* "---\n{metadata}\n---\n\n{content}\n", stripped as a whole, so the body
\* keeps its leading and loses its trailing white space.
Dumps(metadata, content) == [header |-> metadata, body |-> RStrip(content)]

\* frontmatter.loads(text): the metadata and the stripped body.
Loads(text) == [metadata |-> text.header, content |-> Strip(text.body)]

\* One bullet of the generated Links section.
LinkLine(link) ==
    <<"-", " ", link.link_type, " ", "[[", link.target_id, "]]">>
    \o (IF link.description # NoDesc /\ link.description[1] # <<>>
        THEN <<" ">> \o link.description[1] ELSE <<>>)

ExportNoteToMarkdown(note) ==
    LET metadata ==
            [id |-> Some(note.id), title |-> Some(note.title),
             type |-> Some(note.note_type),
             tags |-> Some(Join([i \in 1..Cardinality(note.tags) |->
                                    <<SetToSeq(note.tags)[i]>>], <<",", " ">>)),
             created |-> Some(IsoFormat(note.created_at)),
             updated |-> Some(IsoFormat(note.updated_at)),
             extra |-> {kv \in note.metadata :
                           kv[1] \notin ReservedKeys \cup MigrationKeys}]
        content_parts ==
            <<Strip(note.content)>>
            \o (IF note.links # <<>> /\ ~Contains(note.content, LinksHeading)
                THEN <<<<NL>> \o LinksHeading>>
                     \o [i \in 1..Len(note.links) |-> LinkLine(note.links[i])]
                ELSE <<>>)
    IN  Dumps(metadata, Join(content_parts, <<NL>>))

\* The link of one bullet line of a Links section; <<>> when the line has no
\* "[[" or no "]]".
ParseLinkLine(source_id, line, now) ==
    IF IndexOf(line, "[[") = 0 \/ IndexOf(line, "]]") = 0 THEN <<>>
    ELSE LET parts == SplitOnce(line, "[[")
             stripped == Strip(parts[1])
             link_type_str == IF StartsWith(stripped, Bullet)
                              THEN Strip(SubSeq(stripped, 3, Len(stripped)))
                              ELSE stripped
             id_and_desc == SplitOnce(parts[2], "]]")
             target_id == Strip(id_and_desc[1])
             description == IF Len(id_and_desc) > 1
                            THEN Some(Strip(id_and_desc[2])) ELSE NoDesc
             link_type == IF Len(link_type_str) = 1 /\ link_type_str[1] \in LinkTypes
                          THEN link_type_str[1] ELSE "reference"
         IN  <<[source_id |-> source_id, target_id |-> Word(target_id),
                link_type |-> link_type, description |-> description,
                created_at |-> now]>>

RECURSIVE ScanLinks(_, _, _, _)
ScanLinks(source_id, lines, links_section, now) ==
    IF lines = <<>> THEN <<>>
    ELSE LET line == Strip(Head(lines))
         IN  IF StartsWith(line, LinksHeading)
             THEN ScanLinks(source_id, Tail(lines), TRUE, now)
             ELSE IF links_section /\ StartsWith(line, H2)
             THEN ScanLinks(source_id, Tail(lines), FALSE, now)
             ELSE (IF links_section /\ StartsWith(line, Bullet)
                   THEN ParseLinkLine(source_id, line, now) ELSE <<>>)
                  \o ScanLinks(source_id, Tail(lines), links_section, now)

ExtractLinksFromContent(source_id, content, now) ==
    ScanLinks(source_id, Split(content, NL), FALSE, now)

\* The tag names of a comma-separated header value.
TagNames(tags_data) ==
    LET parts == Split(tags_data, ",")
    IN  {Word(Strip(parts[i])) : i \in {j \in 1..Len(parts) : Strip(parts[j]) # <<>>}}

ParseFailure(warning) == [ok |-> FALSE, note |-> NoNote, warnings |-> <<warning>>]

\* MarkdownImporter.parse_note_from_markdown on the text of a file, read at
\* time now.
ParseNoteFromMarkdown(text, now) ==
    LET post == Loads(text)
        metadata == post.metadata
    IN  IF metadata.id = <<>> \/ metadata.id[1] = ""
        THEN ParseFailure("No ID")
        ELSE IF \/ (metadata.created # <<>> /\ ~IsIso(metadata.created[1]))
                \/ (metadata.updated # <<>> /\ ~IsIso(metadata.updated[1]))
        THEN ParseFailure("Failed to parse")
        ELSE
        LET note_id == metadata.id[1]
            title == IF metadata.title # <<>> THEN metadata.title[1]
                     ELSE <<"Untitled Note", " ", note_id>>
            note_type_str == IF metadata.type # <<>> THEN metadata.type[1]
                             ELSE "permanent"
            note_type == IF note_type_str \in NoteTypes THEN note_type_str
                         ELSE "permanent"
            tags_data == IF metadata.tags # <<>> THEN metadata.tags[1] ELSE <<>>
            created_at == IF metadata.created # <<>>
                          THEN FromIsoFormat(metadata.created[1]) ELSE now
            updated_at == IF metadata.updated # <<>>
                          THEN FromIsoFormat(metadata.updated[1]) ELSE created_at
        IN  [ok |-> TRUE,
             note |-> [id |-> note_id, title |-> title, content |-> post.content,
                       note_type |-> note_type, tags |-> TagNames(tags_data),
                       links |-> ExtractLinksFromContent(note_id, post.content, now),
                       created_at |-> created_at, updated_at |-> updated_at,
                       metadata |-> metadata.extra],
             warnings |-> IF note_type_str \in NoteTypes THEN <<>>
                          ELSE <<"Invalid note type">>]

-----------------------------------------------------------------------------
(* The repository                                                          *)

NoteExists(id) == id \in DOMAIN notes

NoteRowWithoutMetadata(item) ==
    [title |-> item.title, content |-> item.content, note_type |-> item.note_type,
     created_at |-> item.created_at, updated_at |-> item.updated_at,
     extra_metadata |-> {}]

\* The DBNote row create builds for item.
NoteRow(item) ==
    [title |-> item.title, content |-> item.content, note_type |-> item.note_type,
     created_at |-> item.created_at, updated_at |-> item.updated_at,
     extra_metadata |-> item.metadata]

UpdatedRowKeepsStamp(row, item, now) ==
    [title |-> item.title, content |-> item.content, note_type |-> item.note_type,
     created_at |-> row.created_at, updated_at |-> item.updated_at,
     extra_metadata |-> item.metadata]

\* The row of an existing note after update has assigned its core fields.
UpdatedRow(row, item, now) ==
    [title |-> item.title, content |-> item.content, note_type |-> item.note_type,
     created_at |-> row.created_at, updated_at |-> now,
     extra_metadata |-> item.metadata]

UpdatedTagsNotCleared(old, item) == old \cup item.tags

\* The tag names of a note after update: the collection is cleared, then
\* every tag of item is appended.
UpdatedTags(old, item) == item.tags

LinkRowsUnchecked(item, present) ==
    [i \in 1..Len(item.links) |->
        [target_id |-> item.links[i].target_id, link_type |-> item.links[i].link_type,
         description |-> item.links[i].description,
         created_at |-> item.links[i].created_at]]

\* The DBLink rows create and update insert for item.links: one per link
\* whose target is a row of the notes table at that point of the session.
LinkRows(item, present) ==
    LET kept == SelectSeq(item.links, LAMBDA l : l.target_id \in present)
    IN  [i \in 1..Len(kept) |->
            [target_id |-> kept[i].target_id, link_type |-> kept[i].link_type,
             description |-> kept[i].description, created_at |-> kept[i].created_at]]

UpdatedLinksNotDeleted(old, item, present) == old \o LinkRows(item, present)

\* The outgoing rows of a note after update: the old rows are deleted, then
\* the rows of item.links are inserted.
UpdatedLinks(old, item, present) == LinkRows(item, present)

CreateOrReplace(item) ==
    /\ notes' = [i \in DOMAIN notes \cup {item.id} |->
                    IF i = item.id THEN NoteRow(item) ELSE notes[i]]
    /\ tags' = tags \cup item.tags
    /\ note_tags' = [note_tags EXCEPT ![item.id] = item.tags]
    /\ links' = [links EXCEPT ![item.id] =
                     LinkRows(item, DOMAIN notes \cup {item.id})]
    /\ last' = [op |-> "create", id |-> item.id, result |-> "ok",
                 arg |-> item, now |-> 0]

Create(item) ==
    IF NoteExists(item.id)
    THEN /\ last' = [op |-> "create", id |-> item.id, result |-> "AlreadyExists",
                     arg |-> NoNote, now |-> 0]
         /\ UNCHANGED store
    ELSE /\ notes' = [i \in DOMAIN notes \cup {item.id} |->
                        IF i = item.id THEN NoteRow(item) ELSE notes[i]]
         /\ tags' = tags \cup item.tags
         /\ note_tags' = [note_tags EXCEPT ![item.id] = item.tags]
         /\ links' = [links EXCEPT ![item.id] =
                         LinkRows(item, DOMAIN notes \cup {item.id})]
         /\ last' = [op |-> "create", id |-> item.id, result |-> "ok",
                     arg |-> item, now |-> 0]

Update(item, now) ==
    IF ~NoteExists(item.id)
    THEN /\ last' = [op |-> "update", id |-> item.id, result |-> "NotFound",
                     arg |-> NoNote, now |-> 0]
         /\ UNCHANGED store
    ELSE /\ notes' = [notes EXCEPT ![item.id] = UpdatedRow(@, item, now)]
         /\ tags' = tags \cup item.tags
         /\ note_tags' = [note_tags EXCEPT ![item.id] = UpdatedTags(@, item)]
         /\ links' = [links EXCEPT ![item.id] = UpdatedLinks(@, item, DOMAIN notes)]
         /\ last' = [op |-> "update", id |-> item.id, result |-> "ok",
                     arg |-> item, now |-> now]

\* What session.delete(db_note) removes besides the row of the note: the
\* link rows the note is the source or the target of, and its note_tags rows.
CascadeLinks(id) ==
    [s \in Ids |-> IF s = id THEN <<>>
                   ELSE SelectSeq(links[s], LAMBDA r : r.target_id # id)]

CascadeNoteTags(id) == [note_tags EXCEPT ![id] = {}]

DeleteKeepsIncoming(id) ==
    IF ~NoteExists(id)
    THEN /\ last' = [op |-> "delete", id |-> id, result |-> "NotFound",
                     arg |-> NoNote, now |-> 0]
         /\ UNCHANGED store
    ELSE /\ notes' = [i \in DOMAIN notes \ {id} |-> notes[i]]
         /\ note_tags' = CascadeNoteTags(id)
         /\ links' = [links EXCEPT ![id] = <<>>]
         /\ UNCHANGED tags
         /\ last' = [op |-> "delete", id |-> id, result |-> "ok",
                     arg |-> NoNote, now |-> 0]

DeleteNotCommitted(id) ==
    IF ~NoteExists(id)
    THEN /\ last' = [op |-> "delete", id |-> id, result |-> "NotFound",
                     arg |-> NoNote, now |-> 0]
         /\ UNCHANGED store
    ELSE /\ last' = [op |-> "delete", id |-> id, result |-> "ok",
                     arg |-> NoNote, now |-> 0]
         /\ UNCHANGED store

Delete(id) ==
    IF ~NoteExists(id)
    THEN /\ last' = [op |-> "delete", id |-> id, result |-> "NotFound",
                     arg |-> NoNote, now |-> 0]
         /\ UNCHANGED store
    ELSE /\ notes' = [i \in DOMAIN notes \ {id} |-> notes[i]]
         /\ note_tags' = CascadeNoteTags(id)
         /\ links' = CascadeLinks(id)
         /\ UNCHANGED tags
         /\ last' = [op |-> "delete", id |-> id, result |-> "ok",
                     arg |-> NoNote, now |-> 0]

\* _db_note_to_note on the row of id and its outgoing_links relationship.
DbNoteToNote(id) ==
    [id |-> id, title |-> notes[id].title, content |-> notes[id].content,
     note_type |-> notes[id].note_type, tags |-> note_tags[id],
     links |-> WithSource(id, links[id]),
     created_at |-> notes[id].created_at, updated_at |-> notes[id].updated_at,
     metadata |-> notes[id].extra_metadata]

Read(id) == IF NoteExists(id) THEN DbNoteToNote(id) ELSE NoNote

\* ORDER BY updated_at DESC over the rows with the given ids.
RECURSIVE OrderByUpdatedDesc(_)
OrderByUpdatedDesc(S) ==
    IF S = {} THEN <<>>
    ELSE LET x == CHOOSE y \in S :
                     \A z \in S : notes[y].updated_at >= notes[z].updated_at
         IN  <<x>> \o OrderByUpdatedDesc(S \ {x})

\* The set linked_ids of find_linked_notes.
LinkedIds(note_id, direction) ==
    (IF direction \in {"outgoing", "both"}
     THEN {links[note_id][i].target_id : i \in 1..Len(links[note_id])} ELSE {})
    \cup
    (IF direction \in {"incoming", "both"}
     THEN {s \in Ids : \E i \in 1..Len(links[s]) : links[s][i].target_id = note_id}
     ELSE {})

FindLinkedNotesPerLink(note_id, direction) ==
    LET out == IF direction \in {"outgoing", "both"}
               THEN SelectSeq(links[note_id], LAMBDA r : r.target_id \in DOMAIN notes)
               ELSE <<>>
        inc == IF direction \in {"incoming", "both"}
               THEN OrderByUpdatedDesc(LinkedIds(note_id, "incoming") \cap DOMAIN notes)
               ELSE <<>>
    IN  [i \in 1..Len(out) |-> DbNoteToNote(out[i].target_id)]
        \o [i \in 1..Len(inc) |-> DbNoteToNote(inc[i])]

FindLinkedNotes(note_id, direction) ==
    LET ids == OrderByUpdatedDesc(LinkedIds(note_id, direction) \cap DOMAIN notes)
    IN  [i \in 1..Len(ids) |-> DbNoteToNote(ids[i])]

\* list(limit): the first limit notes, most recently updated first.
List(limit) ==
    LET ids == OrderByUpdatedDesc(DOMAIN notes)
    IN  [i \in 1..(IF Len(ids) < limit THEN Len(ids) ELSE limit) |->
            DbNoteToNote(ids[i])]

-----------------------------------------------------------------------------
(* The importer                                                            *)

\* The targets of the links of note that are not in note_ids.
BrokenTargets(note, note_ids) ==
    LET broken == SelectSeq(note.links, LAMBDA l : l.target_id \notin note_ids)
    IN  [i \in 1..Len(broken) |-> broken[i].target_id]

\* validate_links(): note id -> its dangling targets, for the notes that
\* have any.
ValidateLinks ==
    LET all_notes == List(ListAll)
        note_ids == {all_notes[i].id : i \in 1..Len(all_notes)}
        bad == {i \in 1..Len(all_notes) : BrokenTargets(all_notes[i], note_ids) # <<>>}
    IN  [id \in {all_notes[i].id : i \in bad} |-> BrokenTargets(Read(id), note_ids)]

Bump(stats, counter) == [stats EXCEPT ![counter] = @ + 1]

ImportSingleFileUpdateAsImported(file, update_existing, now) ==
    LET parsed == ParseNoteFromMarkdown(file.text, now)
        note == parsed.note
        warned == [import_stats EXCEPT !.warnings = @ \o parsed.warnings]
    IN  IF ~parsed.ok
        THEN /\ import_stats' = Bump(warned, "failed")
             /\ UNCHANGED <<store, last>>
        ELSE IF NoteExists(note.id)
        THEN IF update_existing
             THEN /\ Update(note, now)
                  /\ import_stats' = Bump(Bump(warned, "updated"), "imported")
             ELSE /\ import_stats' = Bump(warned, "skipped")
                  /\ UNCHANGED <<store, last>>
        ELSE /\ Create(note)
             /\ import_stats' = Bump(warned, "imported")

ImportSingleFileIdFromName(file, update_existing, now) ==
    LET named == [file.text EXCEPT !.header.id =
                      IF @ = <<>> THEN Some(Word(file.name)) ELSE @]
        parsed == ParseNoteFromMarkdown(named, now)
        note == parsed.note
        warned == [import_stats EXCEPT !.warnings = @ \o parsed.warnings]
    IN  IF ~parsed.ok
        THEN /\ import_stats' = Bump(warned, "failed")
             /\ UNCHANGED <<store, last>>
        ELSE IF NoteExists(note.id)
        THEN IF update_existing
             THEN /\ Update(note, now)
                  /\ import_stats' = Bump(warned, "updated")
             ELSE /\ import_stats' = Bump(warned, "skipped")
                  /\ UNCHANGED <<store, last>>
        ELSE /\ Create(note)
             /\ import_stats' = Bump(warned, "imported")

\* import_single_file(file_path, update_existing), called at time now.
ImportSingleFileSkipRewrites(file, update_existing, now) ==
    LET parsed == ParseNoteFromMarkdown(file.text, now)
        note == parsed.note
        warned == [import_stats EXCEPT !.warnings = @ \o parsed.warnings]
    IN  IF ~parsed.ok
        THEN /\ import_stats' = Bump(warned, "failed")
             /\ UNCHANGED <<store, last>>
        ELSE IF NoteExists(note.id)
        THEN /\ Update(note, now)
             /\ import_stats' = Bump(warned, IF update_existing THEN "updated"
                                                               ELSE "skipped")
        ELSE /\ Create(note)
             /\ import_stats' = Bump(warned, "imported")

ImportSingleFile(file, update_existing, now) ==
    LET parsed == ParseNoteFromMarkdown(file.text, now)
        note == parsed.note
        warned == [import_stats EXCEPT !.warnings = @ \o parsed.warnings]
    IN  IF ~parsed.ok
        THEN /\ import_stats' = Bump(warned, "failed")
             /\ UNCHANGED <<store, last>>
        ELSE IF NoteExists(note.id)
        THEN IF update_existing
             THEN /\ Update(note, now)
                  /\ import_stats' = Bump(warned, "updated")
             ELSE /\ import_stats' = Bump(warned, "skipped")
                  /\ UNCHANGED <<store, last>>
        ELSE /\ Create(note)
             /\ import_stats' = Bump(warned, "imported")

MdFilesWithUnderscore(dir) == SelectSeq(dir, LAMBDA f : f.suffix = "md")

\* The files import_directory and merge_imports take from a directory
\* listing: glob("*.md") without the names that start with an underscore.
MdFiles(dir) ==
    SelectSeq(dir, LAMBDA f : f.suffix = "md" /\ ~StartsWith(f.name, <<"_">>))

\* import_directory(dir, update_existing) up to its loop: total_files is
\* set and the files are queued in listing order.  op is the operation
\* that runs the import, n its number among the calls made on the importer
\* and clear_existing its flag (restore_from_export); stats0 and ids0 are
\* the statistics and the stored ids when op was called.
BeginImportDirectory(op, n, dir, update_existing, clear_existing, now, stats0, ids0) ==
    /\ import_stats' = [import_stats EXCEPT !.total_files = Len(MdFiles(dir))]
    /\ call' = [op |-> op, pc |-> "import", n |-> n, dir |-> dir,
                 queue |-> MdFiles(dir), update_existing |-> update_existing,
                 clear_existing |-> clear_existing, confirmed |-> clear_existing,
                 now |-> now, processed |-> <<>>, stats0 |-> stats0, ids0 |-> ids0,
                 returned |-> FALSE, broken |-> <<>>]

ImportDirectoryStopsAtFailure(file) ==
    /\ ImportSingleFile(file, call.update_existing, call.now)
    /\ call' = [call EXCEPT !.queue = IF import_stats'.failed > import_stats.failed
                                       THEN <<>> ELSE Tail(@),
                             !.processed = Append(@, file)]

\* One turn of the loop of import_directory: import_single_file on the
\* next file.
ImportDirectoryStep(file) ==
    /\ ImportSingleFile(file, call.update_existing, call.now)
    /\ call' = [call EXCEPT !.queue = Tail(@), !.processed = Append(@, file)]

\* The end of import_directory: the importer's statistics are returned.
ImportDirectoryReturns ==
    /\ call' = [call EXCEPT !.pc = "done"]
    /\ UNCHANGED import_stats

\* The ids restore_from_export deletes: those of list(limit=10000).
ClearQueue ==
    LET all_notes == List(ListAll)
    IN  [i \in 1..Len(all_notes) |-> all_notes[i].id]

RestoreStartIgnoresAnswer(dir, clear_existing, confirmed, now) ==
    IF clear_existing
    THEN /\ call' = [op |-> "restore_from_export", pc |-> "clear", n |-> call.n + 1,
                      dir |-> dir, queue |-> ClearQueue,
                      update_existing |-> ~clear_existing,
                      clear_existing |-> clear_existing, confirmed |-> confirmed,
                      now |-> now, processed |-> <<>>, stats0 |-> import_stats,
                      ids0 |-> DOMAIN notes, returned |-> FALSE, broken |-> <<>>]
         /\ UNCHANGED import_stats
    ELSE BeginImportDirectory("restore_from_export", call.n + 1, dir,
                              ~clear_existing, clear_existing, now, import_stats,
                              DOMAIN notes)

\* restore_from_export(export_dir, clear_existing) up to its first loop;
\* confirmed is the answer given to Confirm.ask.
RestoreStart(dir, clear_existing, confirmed, now) ==
    IF clear_existing /\ ~confirmed
    THEN /\ call' = [op |-> "restore_from_export", pc |-> "done", n |-> call.n + 1,
                      dir |-> dir, queue |-> <<>>,
                      update_existing |-> ~clear_existing,
                      clear_existing |-> clear_existing, confirmed |-> confirmed,
                      now |-> now, processed |-> <<>>, stats0 |-> import_stats,
                      ids0 |-> DOMAIN notes, returned |-> FALSE, broken |-> <<>>]
         /\ UNCHANGED import_stats
    ELSE IF clear_existing
    THEN /\ call' = [op |-> "restore_from_export", pc |-> "clear", n |-> call.n + 1,
                      dir |-> dir, queue |-> ClearQueue,
                      update_existing |-> ~clear_existing,
                      clear_existing |-> clear_existing, confirmed |-> confirmed,
                      now |-> now, processed |-> <<>>, stats0 |-> import_stats,
                      ids0 |-> DOMAIN notes, returned |-> FALSE, broken |-> <<>>]
         /\ UNCHANGED import_stats
    ELSE BeginImportDirectory("restore_from_export", call.n + 1, dir,
                              ~clear_existing, clear_existing, now, import_stats,
                              DOMAIN notes)

\* The end of restore_from_export: validate_links, then success is
\* stats["failed"] == 0 on the statistics import_directory returned.
RestoreReturns ==
    /\ call' = [call EXCEPT !.pc = "done", !.broken = ValidateLinks,
                             !.returned = (import_stats.failed = 0)]
    /\ UNCHANGED import_stats

\* len() of a text: the characters of its symbols.
AtomLen(c) ==
    CASE c \in {"[[", "]]"} -> 2
      [] c \in {"Links", "Other"} -> 5
      [] c = "extends" -> 7
      [] c = "contrast" -> 8
      [] c = "reference" -> 9
      [] OTHER -> 1

RECURSIVE PyLen(_)
PyLen(s) == IF s = <<>> THEN 0 ELSE AtomLen(Head(s)) + PyLen(Tail(s))

\* The markdown files of the directories of a list, in directory-list
\* order, then listing order.  A directory that does not exist is skipped,
\* which leaves what an empty listing leaves.
RECURSIVE FilesOfDirs(_)
FilesOfDirs(dirs) ==
    IF dirs = <<>> THEN <<>> ELSE MdFiles(Head(dirs)) \o FilesOfDirs(Tail(dirs))

\* The warnings parse_note_from_markdown records on the files, in order.
RECURSIVE ParseWarnings(_, _)
ParseWarnings(files, now) ==
    IF files = <<>> THEN <<>>
    ELSE ParseNoteFromMarkdown(Head(files).text, now).warnings
         \o ParseWarnings(Tail(files), now)

\* The notes merge_imports parses from the files, in order.
ParsedNotes(files, now) ==
    LET parsed == [i \in 1..Len(files) |-> ParseNoteFromMarkdown(files[i].text, now)]
        good == SelectSeq(parsed, LAMBDA r : r.ok)
    IN  [i \in 1..Len(good) |-> good[i].note]

\* The keys of the dict all_notes, in insertion order.
RECURSIVE KeysInOrder(_, _)
KeysInOrder(found, seen) ==
    IF found = <<>> THEN <<>>
    ELSE IF Head(found).id \in seen THEN KeysInOrder(Tail(found), seen)
    ELSE <<Head(found).id>> \o KeysInOrder(Tail(found), seen \cup {Head(found).id})

\* all_notes[id]: the versions of id, in the order they were appended.
VersionsOf(found, id) == SelectSeq(found, LAMBDA n : n.id = id)

\* The loops of max() and min() over the keys of a list from position i on,
\* best being the position held so far.
RECURSIVE MaxIndexLast(_, _, _)
MaxIndexLast(keys, i, best) ==
    IF i > Len(keys) THEN best
    ELSE MaxIndexLast(keys, i + 1, IF keys[i] >= keys[best] THEN i ELSE best)

RECURSIVE MaxIndex(_, _, _)
MaxIndex(keys, i, best) ==
    IF i > Len(keys) THEN best
    ELSE MaxIndex(keys, i + 1, IF keys[i] > keys[best] THEN i ELSE best)

RECURSIVE MinIndex(_, _, _)
MinIndex(keys, i, best) ==
    IF i > Len(keys) THEN best
    ELSE MinIndex(keys, i + 1, IF keys[i] < keys[best] THEN i ELSE best)

\* The version merge_imports selects among the versions of one id.
SelectVersion(versions, strategy) ==
    IF Len(versions) = 1 THEN versions[1]
    ELSE IF strategy = "newest"
    THEN versions[MaxIndex([i \in 1..Len(versions) |-> versions[i].updated_at], 2, 1)]
    ELSE IF strategy = "oldest"
    THEN versions[MinIndex([i \in 1..Len(versions) |-> versions[i].updated_at], 2, 1)]
    ELSE IF strategy = "largest"
    THEN versions[MaxIndex([i \in 1..Len(versions) |-> PyLen(versions[i].content)], 2, 1)]
    ELSE versions[1]

\* merge_imports(import_dirs, strategy) up to its last loop: the files are
\* parsed, the versions grouped by id and one version selected per id.
MergeImportsStart(dirs, strategy, now) ==
    \E found \in {ParsedNotes(FilesOfDirs(dirs), now)} :
    LET files == FilesOfDirs(dirs)
        keys == KeysInOrder(found, {})
        notes_to_import ==
            [i \in 1..Len(keys) |-> SelectVersion(VersionsOf(found, keys[i]), strategy)]
        conflicts ==
            Cardinality({i \in 1..Len(keys) : Len(VersionsOf(found, keys[i])) > 1})
    IN  /\ import_stats' = [import_stats EXCEPT
                                !.warnings = @ \o ParseWarnings(files, now)]
        /\ call' = [op |-> "merge_imports", pc |-> "merge", n |-> call.n + 1,
                     dirs |-> dirs, strategy |-> strategy, now |-> now,
                     queue |-> notes_to_import, selected |-> notes_to_import,
                     ids0 |-> DOMAIN notes,
                     returned |-> [total_files |-> Len(files),
                                   unique_notes |-> Len(keys),
                                   conflicts |-> conflicts,
                                   imported |-> 0, failed |-> 0]]

MergeImportsStepCreateOnly(note) ==
    /\ IF NoteExists(note.id) THEN UNCHANGED <<store, last>> ELSE Create(note)
    /\ call' = [call EXCEPT !.queue = Tail(@), !.returned.imported = @ + 1]

\* One turn of the last loop of merge_imports: the note is updated when its
\* id is stored and created when it is not.
MergeImportsStep(note) ==
    /\ IF NoteExists(note.id) THEN Update(note, call.now) ELSE Create(note)
    /\ call' = [call EXCEPT !.queue = Tail(@), !.returned.imported = @ + 1]

-----------------------------------------------------------------------------
(* The migrator                                                            *)

\* The title the migrator takes from the body: the text of the first line
\* that starts with "# ", empty when there is no such line.
RECURSIVE FirstHeading(_)
FirstHeading(lines) ==
    IF lines = <<>> THEN <<>>
    ELSE IF StartsWith(Head(lines), <<"#", " ">>)
    THEN Strip(SubSeq(Head(lines), 3, Len(Head(lines))))
    ELSE FirstHeading(Tail(lines))

MigratorParseWarnsOnHeading(file, stat, now) ==
    LET post == Loads(file.text)
        metadata == post.metadata
        no_id == metadata.id = <<>> \/ metadata.id[1] = ""
        note_id == IF no_id THEN Word(file.name) ELSE metadata.id[1]
        no_title == metadata.title = <<>> \/ metadata.title[1] = <<>>
        heading == FirstHeading(Split(Strip(post.content), NL))
        title == IF ~no_title THEN metadata.title[1]
                 ELSE IF heading # <<>> THEN heading
                 ELSE <<"Untitled Note", " ", note_id>>
        note_type_str == IF metadata.type # <<>> THEN metadata.type[1]
                         ELSE "permanent"
        note_type == IF note_type_str \in NoteTypes THEN note_type_str
                     ELSE "permanent"
        tags_data == IF metadata.tags # <<>> THEN metadata.tags[1] ELSE <<>>
    IN  IF \/ (metadata.created # <<>> /\ ~IsIso(metadata.created[1]))
           \/ (metadata.updated # <<>> /\ ~IsIso(metadata.updated[1]))
        THEN [ok |-> FALSE, note |-> NoNote, warnings |-> <<>>]
        ELSE [ok |-> TRUE,
              note |-> [id |-> note_id, title |-> title, content |-> post.content,
                        note_type |-> note_type, tags |-> TagNames(tags_data),
                        links |-> ExtractLinksFromContent(note_id, post.content, now),
                        created_at |-> IF metadata.created # <<>>
                                       THEN FromIsoFormat(metadata.created[1])
                                       ELSE stat.st_ctime,
                        updated_at |-> IF metadata.updated # <<>>
                                       THEN FromIsoFormat(metadata.updated[1])
                                       ELSE stat.st_mtime,
                        metadata |-> metadata.extra
                                     \cup {<<"migrated_from", Word(file.name)>>,
                                           <<"migration_date", ToString(now)>>}],
              warnings |-> (IF no_id THEN <<"No ID in frontmatter">> ELSE <<>>)
                           \o (IF no_title THEN <<"No title found">> ELSE <<>>)
                           \o (IF note_type_str \in NoteTypes THEN <<>>
                               ELSE <<"Invalid note type">>)]

\* MarkdownToSQLiteMigrator.parse_note_from_markdown on a file with the
\* given stat times, read at time now: the note and the warnings added to
\* the report.  A failure leaves the warnings made before it; the only
\* statements that can fail come after all of them.
MigratorParse(file, stat, now) ==
    LET post == Loads(file.text)
        metadata == post.metadata
        no_id == metadata.id = <<>> \/ metadata.id[1] = ""
        note_id == IF no_id THEN Word(file.name) ELSE metadata.id[1]
        no_title == metadata.title = <<>> \/ metadata.title[1] = <<>>
        heading == FirstHeading(Split(Strip(post.content), NL))
        title == IF ~no_title THEN metadata.title[1]
                 ELSE IF heading # <<>> THEN heading
                 ELSE <<"Untitled Note", " ", note_id>>
        note_type_str == IF metadata.type # <<>> THEN metadata.type[1]
                         ELSE "permanent"
        note_type == IF note_type_str \in NoteTypes THEN note_type_str
                     ELSE "permanent"
        tags_data == IF metadata.tags # <<>> THEN metadata.tags[1] ELSE <<>>
        warnings == (IF no_id THEN <<"No ID in frontmatter">> ELSE <<>>)
                    \o (IF no_title /\ heading = <<>>
                        THEN <<"No title found">> ELSE <<>>)
                    \o (IF note_type_str \in NoteTypes THEN <<>>
                        ELSE <<"Invalid note type">>)
    IN  IF \/ (metadata.created # <<>> /\ ~IsIso(metadata.created[1]))
           \/ (metadata.updated # <<>> /\ ~IsIso(metadata.updated[1]))
        THEN [ok |-> FALSE, note |-> NoNote, warnings |-> warnings]
        ELSE [ok |-> TRUE,
              note |-> [id |-> note_id, title |-> title, content |-> post.content,
                        note_type |-> note_type, tags |-> TagNames(tags_data),
                        links |-> ExtractLinksFromContent(note_id, post.content, now),
                        created_at |-> IF metadata.created # <<>>
                                       THEN FromIsoFormat(metadata.created[1])
                                       ELSE stat.st_ctime,
                        updated_at |-> IF metadata.updated # <<>>
                                       THEN FromIsoFormat(metadata.updated[1])
                                       ELSE stat.st_mtime,
                        metadata |-> metadata.extra
                                     \cup {<<"migrated_from", Word(file.name)>>,
                                           <<"migration_date", ToString(now)>>}],
              warnings |-> warnings]

\* MigrationReport.add_error and add_success.
AddError(rep, error) ==
    [rep EXCEPT !.failed_migrations = @ + 1, !.errors = Append(@, error)]
AddSuccess(rep, note_id) ==
    [rep EXCEPT !.successful_migrations = @ + 1, !.notes_migrated = Append(@, note_id)]

\* migrate_note(file_path): the note is parsed and created; a file that
\* does not parse and a create that raises are recorded as errors.
MigrateNote(file, stat, now) ==
    LET parsed == MigratorParse(file, stat, now)
        warned == [report EXCEPT !.warnings = @ \o parsed.warnings]
    IN  IF ~parsed.ok
        THEN /\ report' = AddError(warned, "Failed to parse note")
             /\ UNCHANGED <<store, last>>
        ELSE /\ Create(parsed.note)
             /\ report' = IF NoteExists(parsed.note.id)
                           THEN AddError(warned, "already exists")
                           ELSE AddSuccess(warned, parsed.note.id)

VerifyFileFirstMismatch(file, stat, now) ==
    LET parsed == MigratorParse(file, stat, now)
        file_note == parsed.note
    IN  IF ~parsed.ok
        THEN <<[issue |-> "Could not parse", of |-> Word(file.name)]>>
        ELSE IF ~NoteExists(file_note.id)
        THEN <<[issue |-> "not found in database", of |-> file_note.id]>>
        ELSE LET db_note == Read(file_note.id)
             IN  IF file_note.title # db_note.title
                 THEN <<[issue |-> "Title mismatch", of |-> file_note.id]>>
                 ELSE IF file_note.content # db_note.content
                 THEN <<[issue |-> "Content mismatch", of |-> file_note.id]>>
                 ELSE IF file_note.note_type # db_note.note_type
                 THEN <<[issue |-> "Type mismatch", of |-> file_note.id]>>
                 ELSE IF file_note.tags # db_note.tags
                 THEN <<[issue |-> "Tags mismatch", of |-> file_note.id]>>
                 ELSE <<>>

\* The issues verify_migration records for one file.
VerifyFile(file, stat, now) ==
    LET parsed == MigratorParse(file, stat, now)
        file_note == parsed.note
    IN  IF ~parsed.ok
        THEN <<[issue |-> "Could not parse", of |-> Word(file.name)]>>
        ELSE IF ~NoteExists(file_note.id)
        THEN <<[issue |-> "not found in database", of |-> file_note.id]>>
        ELSE LET db_note == Read(file_note.id)
             IN  (IF file_note.title # db_note.title
                  THEN <<[issue |-> "Title mismatch", of |-> file_note.id]>> ELSE <<>>)
                 \o (IF file_note.content # db_note.content
                     THEN <<[issue |-> "Content mismatch", of |-> file_note.id]>>
                     ELSE <<>>)
                 \o (IF file_note.note_type # db_note.note_type
                     THEN <<[issue |-> "Type mismatch", of |-> file_note.id]>>
                     ELSE <<>>)
                 \o (IF file_note.tags # db_note.tags
                     THEN <<[issue |-> "Tags mismatch", of |-> file_note.id]>>
                     ELSE <<>>)

RECURSIVE VerifyFiles(_, _, _)
VerifyFiles(files, stat, now) ==
    IF files = <<>> THEN <<>>
    ELSE VerifyFile(Head(files), stat, now) \o VerifyFiles(Tail(files), stat, now)

\* The warnings the migrator's parse adds to the report on the files.
RECURSIVE MigratorWarnings(_, _, _)
MigratorWarnings(files, stat, now) ==
    IF files = <<>> THEN <<>>
    ELSE MigratorParse(Head(files), stat, now).warnings
         \o MigratorWarnings(Tail(files), stat, now)

\* get_statistics()["total_notes"]
TotalNotes == Cardinality(DOMAIN notes)

\* verify_migration() on the listing of notes_dir: (valid, issues).
VerifyMigration(dir, stat, now) ==
    LET md_files == SelectSeq(dir, LAMBDA f : f.suffix = "md")
        md_count == Len(md_files)
        db_count == TotalNotes
        issues == (IF md_count # db_count
                   THEN <<[issue |-> "Count mismatch", of |-> "database"]>> ELSE <<>>)
                  \o VerifyFiles(md_files, stat, now)
    IN  /\ report' = [report EXCEPT
                          !.warnings = @ \o MigratorWarnings(md_files, stat, now)]
        /\ call' = [op |-> "verify_migration", pc |-> "done", n |-> call.n + 1,
                     dir |-> dir, stat |-> stat, now |-> now,
                     returned |-> [valid |-> Len(issues) = 0, issues |-> issues]]

-----------------------------------------------------------------------------
(* Inputs of the codec and of the importer                                 *)

CodecLinkVals ==
    { [target_id |-> "b", link_type |-> "reference", description |-> NoDesc,
       created_at |-> 1],
      [target_id |-> "c", link_type |-> "extends", description |-> Some(<<"d">>),
       created_at |-> 1],
      [target_id |-> "b", link_type |-> "contrast",
       description |-> Some(<<"d", " ", "e">>), created_at |-> 1] }

\* Contents: empty, plain, padded with white space, with another section,
\* with "## Links" inside a line, with a deeper "### Links" heading, and
\* with a Links section of its own.
CodecContents ==
    { <<>>,
      <<"w">>,
      <<" ", "w", " ", "v", NL>>,
      <<"w", NL, "#", "#", " ", "Other", NL, "-", " ", "v">>,
      <<"w", " ", "#", "#", " ", "Links">>,
      <<"w", NL, "#", "#", "#", " ", "Links">>,
      <<"w", NL, "#", "#", " ", "Links", NL,
        "-", " ", "reference", " ", "[[", "c", "]]">> }

CodecBodies ==
    { [title |-> <<"t1">>, content |-> c, note_type |-> k, tags |-> ts,
       created_at |-> 1, updated_at |-> 2,
       metadata |-> {<<"author", "ann">>, <<"migrated_from", "old">>}] :
      c \in CodecContents, k \in {"permanent", "fleeting"},
      ts \in {{}, {"x"}, {"x", "y"}} }

CodecNotes ==
    {MkNote("a", b, WithSource("a", ls)) :
        b \in CodecBodies, ls \in SeqsUpTo(CodecLinkVals, MaxLinks)}

NoText == [header |-> <<>>, body |-> <<>>]
NotParsed == [ok |-> FALSE, note |-> NoNote, warnings |-> <<>>]

\* A file as the exporter writes it for note.
FileOf(note) ==
    [name |-> <<note.id>>, suffix |-> "md", text |-> ExportNoteToMarkdown(note)]

\* a.md links to b; b.md links nowhere; c.md links to a and to b; a second version of a.md;
\* a file c.md whose header has no id.
FileA ==
    FileOf(MkNote("a", Body1, WithSource("a",
        <<[target_id |-> "b", link_type |-> "reference",
           description |-> Some(<<"d">>), created_at |-> 1]>>)))
FileB == FileOf(MkNote("b", Body2, <<>>))
FileC ==
    FileOf(MkNote("c", Body1, WithSource("c",
        <<[target_id |-> "a", link_type |-> "contrast",
           description |-> NoDesc, created_at |-> 1],
          [target_id |-> "b", link_type |-> "reference",
           description |-> NoDesc, created_at |-> 1]>>)))
FileA2 == [FileOf(MkNote("a", Body2, <<>>)) EXCEPT !.name = <<"a", "2">>]
FileNoId ==
    [name |-> <<"c">>, suffix |-> "md",
     text |-> [header |-> [id |-> <<>>, title |-> Some(<<"t1">>),
                           type |-> Some("fleeting"), tags |-> Some(<<"y">>),
                           created |-> <<>>, updated |-> <<>>, extra |-> {}],
               body |-> <<"w">>]]

ImportFiles == {FileA, FileB, FileC, FileA2, FileNoId}

\* What an export leaves besides the notes, and a markdown file whose name
\* starts with an underscore.
FileMetadata ==
    [name |-> <<"_", "export_metadata">>, suffix |-> "json", text |-> NoText]
FileUnderscore == [FileOf(MkNote("b", Body1, <<>>)) EXCEPT !.name = <<"_", "b">>]

\* Directory listings: the two notes and the file without an id, with the
\* metadata file; a clean export in which the link target comes first; two
\* files with the same id and an underscore file; an empty directory.
DirSample == <<FileA, FileNoId, FileMetadata, FileB>>
DirClean == <<FileMetadata, FileB, FileA>>
DirTwice == <<FileUnderscore, FileA2, FileC, FileA>>
Dirs == {DirSample, DirClean, DirTwice, <<>>}

\* An older version of "a", as long as the second one.
Body0 ==
    [title |-> <<"t0">>, content |-> <<"v", " ", "w">>, note_type |-> "fleeting",
     tags |-> {"y"}, created_at |-> 0, updated_at |-> 0, metadata |-> {}]
FileA0 == [FileOf(MkNote("a", Body0, <<>>)) EXCEPT !.name = <<"a", "0">>]
DirOlder == <<FileA0, FileNoId>>
DirSecond == <<FileA2, FileC>>

\* Files of a notes directory of the migrator: c.md with a heading for a
\* title, without any title, with an empty heading, with an unknown type,
\* with no header at all, and b.md with a created field that is no date.
HeaderOf(id, title, type) ==
    [id |-> id, title |-> title, type |-> type, tags |-> <<>>,
     created |-> <<>>, updated |-> <<>>, extra |-> {}]
FileHeading ==
    [name |-> <<"c">>, suffix |-> "md",
     text |-> [header |-> HeaderOf(Some("c"), <<>>, Some("fleeting")),
               body |-> <<"w", NL, "#", " ", "h", " ", NL, "#", " ", "g">>]]
FileNoTitle ==
    [name |-> <<"c">>, suffix |-> "md",
     text |-> [header |-> HeaderOf(Some("c"), <<>>, <<>>),
               body |-> <<"w", NL, "#", "#", " ", "h">>]]
FileEmptyHeading ==
    [name |-> <<"c">>, suffix |-> "md",
     text |-> [header |-> HeaderOf(Some("c"), Some(<<>>), <<>>),
               body |-> <<"#", " ", NL, "#", " ", "g">>]]
FileBadType ==
    [name |-> <<"c">>, suffix |-> "md",
     text |-> [header |-> HeaderOf(Some("c"), Some(<<"t1">>), Some("weird")),
               body |-> <<"w">>]]
FilePlain ==
    [name |-> <<"c">>, suffix |-> "md",
     text |-> [header |-> HeaderOf(<<>>, <<>>, <<>>), body |-> <<"w">>]]
FileBadDate ==
    [name |-> <<"b">>, suffix |-> "md",
     text |-> [header |-> [HeaderOf(<<>>, <<>>, Some("weird")) EXCEPT
                              !.created = Some([text |-> "soon"])],
               body |-> <<"w">>]]
MigrateFiles ==
    {FileA, FileB, FileNoId, FileHeading, FileNoTitle, FileEmptyHeading,
     FileBadType, FilePlain, FileBadDate}

\* The stat times of the files.
Stats == {[st_ctime |-> 0, st_mtime |-> 1]}

\* Versions of b.md that differ from it in the title, in the type and the
\* tags, and in the content.
FileBTitle == [FileB EXCEPT !.text.header.title = Some(<<"t9">>)]
FileBTypeTags ==
    [FileB EXCEPT !.text.header.type = Some("fleeting"),
                  !.text.header.tags = Some(<<"z", ",", "q">>)]
FileBBody == [FileB EXCEPT !.text.body = <<"w">>]

\* Listings of the notes directory at the time of a verification.
VerifyDirs ==
    { <<FileA, FileB>>, <<FileBTitle, FileBadDate>>, <<FileBTypeTags, FileMetadata>>,
      <<FileBBody, FileNoId>>, <<FileUnderscore, FileA>>, <<>> }

\* The directory lists of merge_imports and its strategies; "first" stands
\* for every strategy that is none of the three named ones.
MergeLists ==
    { <<DirSample, DirTwice>>, <<DirOlder, DirTwice>>, <<DirOlder, DirSecond>>,
      <<DirSecond, DirOlder>>, <<>> }
Strategies == {"newest", "oldest", "largest", "first"}

NoStats ==
    [total_files |-> 0, imported |-> 0, updated |-> 0, skipped |-> 0, failed |-> 0,
     warnings |-> <<>>]

Processed(stats) == stats.imported + stats.updated + stats.skipped + stats.failed

\* No call of an import or migration operation has been made yet.
\* export_stats of a new MarkdownExporter.
NoExportStats == [total_notes |-> 0, exported |-> 0, failed |-> 0, warnings |-> <<>>]

\* The processes that call the repository concurrently, none of them with
\* a Session open.
Procs == {1, 2}
NoSessions == [p \in Procs |-> [pc |-> "idle"]]

NoCall == [op |-> "none", pc |-> "done", n |-> 0]

\* MigrationReport(): the counters and the warnings of a new migrator.
NoReport ==
    [total_files |-> 0, successful_migrations |-> 0, failed_migrations |-> 0,
     warnings |-> <<>>, errors |-> <<>>, notes_migrated |-> <<>>]

-----------------------------------------------------------------------------
(* The repository under any sequence of create, update and delete          *)

Init ==
    /\ notes = <<>>
    /\ tags = {}
    /\ note_tags = [i \in Ids |-> {}]
    /\ links = [i \in Ids |-> <<>>]
    /\ last = [op |-> "init", id |-> None, result |-> "ok", arg |-> NoNote, now |-> 0]
    /\ codec = [phase |-> "idle", note |-> NoNote, text |-> NoText,
                decoded |-> NotParsed, text2 |-> NoText]
    /\ import_stats = NoStats
    /\ call = NoCall
    /\ report = NoReport
    /\ export_stats = NoExportStats
    /\ export_dir = {}
    /\ sessions = NoSessions

DoCreate ==
    \E item \in ArgNotes :
        /\ Create(item)
        /\ UNCHANGED <<codec, export_stats, export_dir, sessions, import_stats, call, report>>
DoUpdate ==
    \E item \in ArgNotes, now \in Times :
        /\ Update(item, now)
        /\ UNCHANGED <<codec, export_stats, export_dir, sessions, import_stats, call, report>>
DoDelete ==
    \E id \in Ids :
        /\ Delete(id)
        /\ UNCHANGED <<codec, export_stats, export_dir, sessions, import_stats, call, report>>

Next == DoCreate \/ DoUpdate \/ DoDelete

Spec == Init /\ [][Next]_vars

-----------------------------------------------------------------------------
(* The codec: a note is exported, the text parsed, the result exported     *)

InitCodec ==
    /\ notes = <<>>
    /\ tags = {}
    /\ note_tags = [i \in Ids |-> {}]
    /\ links = [i \in Ids |-> <<>>]
    /\ last = [op |-> "init", id |-> None, result |-> "ok", arg |-> NoNote, now |-> 0]
    /\ \E n \in CodecNotes :
          codec = [phase |-> "note", note |-> n, text |-> NoText,
                   decoded |-> NotParsed, text2 |-> NoText]
    /\ import_stats = NoStats
    /\ call = NoCall
    /\ report = NoReport
    /\ export_stats = NoExportStats
    /\ export_dir = {}
    /\ sessions = NoSessions

Export ==
    /\ codec.phase = "note"
    /\ codec' = [codec EXCEPT !.phase = "exported",
                              !.text = ExportNoteToMarkdown(codec.note)]
    /\ UNCHANGED <<store, last, export_stats, export_dir, sessions, import_stats, call, report>>

Parse ==
    /\ codec.phase = "exported"
    /\ \E now \in Times :
          codec' = [codec EXCEPT !.phase = "parsed",
                                 !.decoded = ParseNoteFromMarkdown(codec.text, now)]
    /\ UNCHANGED <<store, last, export_stats, export_dir, sessions, import_stats, call, report>>

ReExport ==
    /\ codec.phase = "parsed"
    /\ codec.decoded.ok
    /\ codec' = [codec EXCEPT !.phase = "reexported",
                              !.text2 = ExportNoteToMarkdown(codec.decoded.note)]
    /\ UNCHANGED <<store, last, export_stats, export_dir, sessions, import_stats, call, report>>

NextCodec == Export \/ Parse \/ ReExport

SpecCodec == InitCodec /\ [][NextCodec]_vars

-----------------------------------------------------------------------------
(* The importer on an empty store                                          *)

DoImportSingleFile ==
    /\ Processed(import_stats) < MaxImports
    /\ \E file \in ImportFiles, update_existing \in BOOLEAN, now \in Times :
          /\ ImportSingleFile(file, update_existing, now)
          /\ call' = [op |-> "import_single_file", pc |-> "done", n |-> call.n,
                       file |-> file, update_existing |-> update_existing,
                       now |-> now]
    /\ UNCHANGED <<codec, export_stats, export_dir, sessions, report>>

NextImport == DoImportSingleFile

SpecImport == Init /\ [][NextImport]_vars

-----------------------------------------------------------------------------
(* The bulk operations of one BulkImporter and its importer                *)

Idle == call.pc = "done" /\ call.n < MaxCalls

DoImportDirectory ==
    /\ Idle
    /\ \E dir \in Dirs, update_existing \in BOOLEAN, now \in Times :
          BeginImportDirectory("import_directory", call.n + 1, dir,
                               update_existing, FALSE, now, import_stats,
                               DOMAIN notes)
    /\ UNCHANGED <<store, last, codec, export_stats, export_dir, sessions, report>>

DoRestoreFromExport ==
    /\ Idle
    /\ \E dir \in Dirs, clear_existing \in BOOLEAN, confirmed \in BOOLEAN,
           now \in Times :
          /\ clear_existing \/ confirmed
          /\ RestoreStart(dir, clear_existing, confirmed, now)
    /\ UNCHANGED <<store, last, codec, export_stats, export_dir, sessions, report>>

\* The loop for note in all_notes: repository.delete(note.id).
ClearStep ==
    /\ call.pc = "clear" /\ call.queue # <<>>
    /\ Delete(Head(call.queue))
    /\ call' = [call EXCEPT !.queue = Tail(@)]
    /\ UNCHANGED <<codec, export_stats, export_dir, sessions, import_stats, report>>

ClearDone ==
    /\ call.pc = "clear" /\ call.queue = <<>>
    /\ BeginImportDirectory(call.op, call.n, call.dir, call.update_existing,
                             call.clear_existing, call.now, call.stats0, call.ids0)
    /\ UNCHANGED <<store, last, codec, export_stats, export_dir, sessions, report>>

ImportStep ==
    /\ call.pc = "import" /\ call.queue # <<>>
    /\ ImportDirectoryStep(Head(call.queue))
    /\ UNCHANGED <<codec, export_stats, export_dir, sessions, report>>

ImportDone ==
    /\ call.pc = "import" /\ call.queue = <<>>
    /\ IF call.op = "import_directory" THEN ImportDirectoryReturns
       ELSE RestoreReturns
    /\ UNCHANGED <<store, last, codec, export_stats, export_dir, sessions, report>>

DoMergeImports ==
    /\ Idle
    /\ \E dirs \in MergeLists, strategy \in Strategies, now \in Times :
          MergeImportsStart(dirs, strategy, now)
    /\ UNCHANGED <<store, last, codec, export_stats, export_dir, sessions, report>>

MergeStep ==
    /\ call.pc = "merge" /\ call.queue # <<>>
    /\ MergeImportsStep(Head(call.queue))
    /\ UNCHANGED <<codec, export_stats, export_dir, sessions, import_stats, report>>

MergeDone ==
    /\ call.pc = "merge" /\ call.queue = <<>>
    /\ call' = [call EXCEPT !.pc = "done"]
    /\ UNCHANGED <<store, last, codec, export_stats, export_dir, sessions, import_stats, report>>

NextBulk ==
    \/ DoImportDirectory \/ DoRestoreFromExport \/ DoMergeImports
    \/ ClearStep \/ ClearDone \/ ImportStep \/ ImportDone
    \/ MergeStep \/ MergeDone

SpecBulk == Init /\ [][NextBulk]_vars

-----------------------------------------------------------------------------
(* The migrator: notes are migrated one by one, then verified              *)

DoMigrateNote ==
    /\ call.op # "verify_migration"
    /\ report.successful_migrations + report.failed_migrations < MaxMigrations
    /\ \E file \in MigrateFiles, stat \in Stats, now \in Times :
          /\ MigrateNote(file, stat, now)
          /\ call' = [op |-> "migrate_note", pc |-> "done", n |-> call.n,
                       file |-> file, stat |-> stat, now |-> now,
                       warnings0 |-> Len(report.warnings)]
    /\ UNCHANGED <<codec, export_stats, export_dir, sessions, import_stats>>

DoVerifyMigration ==
    /\ call.op # "verify_migration"
    /\ \E dir \in VerifyDirs, stat \in Stats, now \in Times :
          VerifyMigration(dir, stat, now)
    /\ UNCHANGED <<store, last, codec, export_stats, export_dir, sessions, import_stats>>

NextMigrate == DoMigrateNote \/ DoVerifyMigration

SpecMigrate == Init /\ [][NextMigrate]_vars

-----------------------------------------------------------------------------
(* Properties                                                              *)

Succeeded(op) == last.op = op /\ last.result = "ok"

\* The links of a note argument whose target is a stored note.
LinksToStored(item) == SelectSeq(item.links, LAMBDA l : l.target_id \in DOMAIN notes)

\* What a link says, apart from when it was made.
LinkData(ls) ==
    [i \in 1..Len(ls) |->
        [target_id |-> ls[i].target_id, link_type |-> ls[i].link_type,
         description |-> ls[i].description]]

C2_DanglingLinkReported ==
    Succeeded("create") =>
        /\ \A i \in 1..Len(last.arg.links) :
              last.arg.links[i].target_id \notin DOMAIN notes
                => /\ DOMAIN ValidateLinks = {last.id}
                   /\ \E j \in 1..Len(ValidateLinks[last.id]) :
                         ValidateLinks[last.id][j] = last.arg.links[i].target_id
        /\ LinksToStored(last.arg) = last.arg.links => DOMAIN ValidateLinks = {}

\* C3: create of a stored id raises AlreadyExists, update and delete of an
\* id that is not stored raise NotFound, no other call raises, and a call
\* that raises leaves notes, tags, tag associations and links as they were.
C3_ViolationRaisesAndKeepsStore ==
    [][ /\ last'.op = "create"
            => (last'.result = "AlreadyExists" <=> last'.id \in DOMAIN notes)
        /\ last'.op \in {"update", "delete"}
            => (last'.result = "NotFound" <=> last'.id \notin DOMAIN notes)
        /\ last'.result # "ok" => UNCHANGED store ]_vars

\* A delete of an id that is not stored has failed on a store that holds
\* notes, tags and links.
C3_Witness ==
    /\ last.op = "delete" /\ last.result = "NotFound"
    /\ DOMAIN notes = Ids \ {last.id}
    /\ \E s \in DOMAIN notes : links[s] # <<>> /\ note_tags[s] # {}

\* C4: a successful update leaves the note with exactly the tag set of the
\* argument, and every other note with the tag set it had.
C4_UpdateReplacesTags ==
    [][ (last'.op = "update" /\ last'.result = "ok")
            => /\ note_tags'[last'.id] = last'.arg.tags
               /\ \A j \in Ids \ {last'.id} : note_tags'[j] = note_tags[j] ]_vars

\* "a" has been updated to the tag set {z} while "b" carries {x, y}.
C4_Witness ==
    /\ Succeeded("update") /\ last.id = "a" /\ last.arg.tags = {"z"}
    /\ DOMAIN notes = {"a", "b"}
    /\ Read("a").tags = {"z"} /\ Read("b").tags = {"x", "y"}

\* C5: a successful update leaves the note with exactly the links of the
\* argument whose target is stored, whatever outgoing links it had before,
\* and leaves the links of every other source, those that point at the
\* updated note included, as they were.
C5_UpdateReplacesOutgoingLinks ==
    [][ (last'.op = "update" /\ last'.result = "ok")
            => /\ LinkData(links'[last'.id])
                    = LinkData(SelectSeq(last'.arg.links,
                                         LAMBDA l : l.target_id \in DOMAIN notes))
               /\ \A j \in Ids \ {last'.id} : links'[j] = links[j] ]_vars

\* "b" has been updated to carry one link to "a" while "a" links to "b".
C5_Witness ==
    /\ Succeeded("update") /\ last.id = "b"
    /\ Len(links["b"]) = 1 /\ links["b"][1].target_id = "a"
    /\ \E i \in 1..Len(links["a"]) : links["a"][i].target_id = "b"

\* C6: a successful delete leaves the id absent, no link with the id as
\* source or target, no tag association of the id, and every other note
\* with its fields, its tags and its links to notes other than the id.
C6_DeleteRemovesNoteAndItsLinks ==
    [][ (last'.op = "delete" /\ last'.result = "ok")
            => /\ last'.id \notin DOMAIN notes'
               /\ links'[last'.id] = <<>>
               /\ \A s \in Ids : \A i \in 1..Len(links'[s]) :
                     links'[s][i].target_id # last'.id
               /\ note_tags'[last'.id] = {}
               /\ DOMAIN notes' = DOMAIN notes \ {last'.id}
               /\ \A j \in DOMAIN notes' :
                     /\ notes'[j] = notes[j]
                     /\ note_tags'[j] = note_tags[j]
                     /\ links'[j] = SelectSeq(links[j],
                                              LAMBDA r : r.target_id # last'.id) ]_vars

\* "b" has been deleted; "a" and "c" remain, "a" with a link to "c".
C6_Witness ==
    /\ Succeeded("delete") /\ last.id = "b"
    /\ DOMAIN notes = {"a", "c"}
    /\ Len(links["a"]) = 1 /\ links["a"][1].target_id = "c"
    /\ note_tags["a"] # {}

NoteIds(ns) == {ns[i].id : i \in 1..Len(ns)}

\* C8: find_linked_notes returns, for incoming, the stored notes that have
\* a link to X; for outgoing, the stored notes the links of X point at; for
\* both, the union; and every note of a result appears in it once.
C8_FindLinkedNotes ==
    \A X \in Ids :
        LET incoming == {s \in DOMAIN notes :
                            \E i \in 1..Len(Read(s).links) :
                                Read(s).links[i].target_id = X}
            outgoing == IF X \in DOMAIN notes
                        THEN {Read(X).links[i].target_id : i \in 1..Len(Read(X).links)}
                        ELSE {}
            expected == [d \in {"incoming", "outgoing", "both"} |->
                            IF d = "incoming" THEN incoming
                            ELSE IF d = "outgoing" THEN outgoing
                            ELSE incoming \cup outgoing]
        IN  \A d \in {"incoming", "outgoing", "both"} :
                LET found == FindLinkedNotes(X, d)
                IN  /\ NoteIds(found) = expected[d]
                    /\ Len(found) = Cardinality(expected[d])
                    /\ \A i \in 1..Len(found) : found[i] = Read(found[i].id)

\* "a" holds two links to "b" and "b" links to itself: "b" is found once
\* from "a", and "a" and "b" once each as the neighbours of "b".
C8_Witness ==
    /\ Len(links["a"]) = 2
    /\ \A i \in 1..2 : links["a"][i].target_id = "b"
    /\ \E i \in 1..Len(links["b"]) : links["b"][i].target_id = "b"
    /\ Len(FindLinkedNotes("a", "outgoing")) = 1
    /\ NoteIds(FindLinkedNotes("b", "both")) = {"a", "b"}

\* A line of the content begins with the "## Links" heading.
HasLinksHeading(content) ==
    \E i \in 1..Len(Split(content, NL)) :
        StartsWith(Strip(Split(content, NL)[i]), LinksHeading)

HeadingCount(text) ==
    Cardinality({i \in 1..Len(Split(text, NL)) :
                    StartsWith(Strip(Split(text, NL)[i]), LinksHeading)})

\* C9: for a note whose content has no Links heading, parsing its exported
\* text succeeds and gives the same id, title, kind, tag set and links
\* (targets, kinds and descriptions, in order).
C9_DecodeOfEncode ==
    (codec.phase \in {"parsed", "reexported"} /\ ~HasLinksHeading(codec.note.content))
        => /\ codec.decoded.ok
           /\ codec.decoded.note.id = codec.note.id
           /\ codec.decoded.note.title = codec.note.title
           /\ codec.decoded.note.note_type = codec.note.note_type
           /\ codec.decoded.note.tags = codec.note.tags
           /\ LinkData(codec.decoded.note.links) = LinkData(codec.note.links)

\* C10: for a note whose content has no Links heading, exporting the parsed
\* export gives the first export again; and for a note whose content has a
\* Links heading, the export holds as many Links headings as the content.
C10_EncodeIdempotent ==
    /\ (codec.phase = "reexported" /\ ~HasLinksHeading(codec.note.content))
            => codec.text2 = codec.text
    /\ (codec.phase = "exported" /\ HasLinksHeading(codec.note.content))
            => HeadingCount(codec.text.body) = HeadingCount(codec.note.content)

-----------------------------------------------------------------------------
(* Properties of the import operations                                     *)

Counters == {"imported", "updated", "skipped", "failed"}

\* The step has added one to counter c and left the other counters alone.
OnlyBumped(c) ==
    /\ import_stats'[c] = import_stats[c] + 1
    /\ \A d \in Counters \ {c} : import_stats'[d] = import_stats[d]

\* What a call import_single_file(f, ue) at time now has done in this step.
\* full: the stored note is the file's version in every field.
ImportOutcome(f, ue, now, full) ==
    LET parsed == ParseNoteFromMarkdown(f.text, now)
        note == parsed.note
    IN  /\ \E c \in Counters : OnlyBumped(c)
        /\ ~parsed.ok =>
              /\ OnlyBumped("failed") /\ store' = store
              /\ Len(import_stats'.warnings) = Len(import_stats.warnings) + 1
        /\ (parsed.ok /\ note.id \in DOMAIN notes /\ ~ue) =>
              OnlyBumped("skipped") /\ store' = store
        /\ \A id \in Ids :
              (parsed.ok /\ id = note.id /\ id \in DOMAIN notes /\ ue) =>
                 /\ OnlyBumped("updated")
                 /\ DOMAIN notes' = DOMAIN notes
                 /\ IF full THEN Read(id)' = note
                    ELSE /\ Read(id)'.title = note.title
                         /\ Read(id)'.content = note.content
                         /\ Read(id)'.note_type = note.note_type
                         /\ Read(id)'.tags = note.tags
                         /\ Read(id)'.metadata = note.metadata
                         /\ Read(id)'.links = LinksToStored(note)
                         /\ Read(id)'.created_at = Read(id).created_at
                         /\ Read(id)'.updated_at = now
        /\ \A id \in Ids :
              (parsed.ok /\ id = note.id /\ id \notin DOMAIN notes) =>
                 /\ OnlyBumped("imported")
                 /\ DOMAIN notes' = DOMAIN notes \cup {id}
                 /\ Read(id)'.title = note.title

IsImportOf(c, f, ue, now) ==
    /\ c.op = "import_single_file" /\ c.file = f
    /\ c.update_existing = ue /\ c.now = now

C12_NoIdIsFailure ==
    [][\A ue \in BOOLEAN, now \in Times :
          IsImportOf(call', FileNoId, ue, now) =>
              /\ notes' = notes
              /\ OnlyBumped("failed")
              /\ import_stats'.warnings = import_stats.warnings \o <<"No ID">>]_vars

\* c.md without an id has been imported into a store without a note "c".
C12_Witness ==
    /\ call.op = "import_single_file" /\ call.file = FileNoId
    /\ import_stats.failed = 1 /\ "c" \notin DOMAIN notes
    /\ import_stats.warnings = <<"No ID">>

\* The files of a listing that are markdown files with a name that does not
\* start with an underscore, in listing order.
Eligible(dir) ==
    SelectSeq(dir, LAMBDA f : f.suffix \notin {"json", "txt"} /\ Head(f.name) # "_")

\* The ids the header of the files of a listing carry.
HeaderIds(files) ==
    {files[i].text.header.id[1] :
        i \in {j \in 1..Len(files) : files[j].text.header.id # <<>>}}

Returned(op) == call.op = op /\ call.pc = "done"

C16_RestoreSucceedsIffRunClean ==
    (Returned("restore_from_export") /\ (call.clear_existing => call.confirmed)) =>
        /\ call.update_existing = ~call.clear_existing
        /\ call.returned = (import_stats.failed - call.stats0.failed = 0)

\* C17: restore_from_export without clearing, called first on an empty
\* store, returns True and leaves exactly the notes of the files that carry
\* an id, also when the directory holds a file without an id and the
\* metadata file.
C17_RestoreOfSampleSucceeds ==
    (Returned("restore_from_export") /\ ~call.clear_existing
        /\ call.n = 1 /\ call.ids0 = {}) =>
        /\ call.returned
        /\ DOMAIN notes = HeaderIds(Eligible(call.dir))

\* The title of the first file of the listing that carries the id.
FirstTitle(files, id) ==
    LET i == CHOOSE j \in 1..Len(files) :
                 /\ files[j].text.header.id = Some(id)
                 /\ \A k \in 1..(j - 1) : files[k].text.header.id # Some(id)
    IN  files[i].text.header.title[1]

RECURSIVE Encountered(_, _)
Encountered(dirs, now) ==
    IF dirs = <<>> THEN <<>>
    ELSE LET files == Eligible(Head(dirs))
             good == {i \in 1..Len(files) :
                         ParseNoteFromMarkdown(files[i].text, now).ok}
         IN  SelectSeq([i \in 1..Len(files) |->
                           IF i \in good
                           THEN ParseNoteFromMarkdown(files[i].text, now).note
                           ELSE NoNote],
                       LAMBDA n : n # NoNote)
             \o Encountered(Tail(dirs), now)

\* versions[k] is the first of the versions with the greatest key.
FirstGreatest(keys, k) ==
    /\ \A j \in 1..Len(keys) : keys[j] <= keys[k]
    /\ \A j \in 1..(k - 1) : keys[j] < keys[k]

FirstLeast(keys, k) ==
    /\ \A j \in 1..Len(keys) : keys[j] >= keys[k]
    /\ \A j \in 1..(k - 1) : keys[j] > keys[k]

\* The note merge_imports selected for id.
SelectedFor(id) ==
    call.selected[CHOOSE i \in 1..Len(call.selected) : call.selected[i].id = id]

\* C14: for every id parsed by merge_imports exactly one version is
\* selected: under newest the first of those with the greatest updated
\* timestamp, under oldest the first of those with the least, under
\* largest the first of those with the longest content, under any other
\* strategy the first encountered; "first" is by directory-list order,
\* then file order.  A single version is selected as it is.
C14_StrategySelectsFirstBest ==
    call.op = "merge_imports" =>
        LET found == Encountered(call.dirs, call.now)
            ids == {found[i].id : i \in 1..Len(found)}
        IN  /\ {call.selected[i].id : i \in 1..Len(call.selected)} = ids
            /\ Len(call.selected) = Cardinality(ids)
            /\ \A id \in ids :
                  LET vs == SelectSeq(found, LAMBDA n : n.id = id)
                      upd == [i \in 1..Len(vs) |-> vs[i].updated_at]
                      len == [i \in 1..Len(vs) |-> PyLen(vs[i].content)]
                      k == CHOOSE i \in 1..Len(vs) :
                             CASE call.strategy = "newest" -> FirstGreatest(upd, i)
                               [] call.strategy = "oldest" -> FirstLeast(upd, i)
                               [] call.strategy = "largest" -> FirstGreatest(len, i)
                               [] OTHER -> i = 1
                  IN  SelectedFor(id) = vs[k]

\* Under newest, "a" has three versions, the two newest tied: the first of
\* the two, which is not the first version of all, is selected.
C14_Witness ==
    /\ call.op = "merge_imports" /\ call.strategy = "newest"
    /\ call.dirs = <<DirOlder, DirTwice>>
    /\ SelectedFor("a").title = <<"t2">>

-----------------------------------------------------------------------------
(* Properties of the migrator                                              *)

DatesValid(f) ==
    /\ f.text.header.created # <<>> => DOMAIN f.text.header.created[1] = {"iso"}
    /\ f.text.header.updated # <<>> => DOMAIN f.text.header.updated[1] = {"iso"}

NoIdIn(f) == f.text.header.id = <<>>
NoTitleIn(f) == f.text.header.title \in {<<>>, <<<<>>>>}
UnknownTypeIn(f) ==
    f.text.header.type # <<>> /\ f.text.header.type[1] \notin NoteTypes

\* The level-1 heading lines of the body of f.
HeadingLines(f) ==
    LET lines == Split(Strip(f.text.body), NL)
    IN  SelectSeq(lines, LAMBDA l : Len(l) >= 2 /\ l[1] = "#" /\ l[2] = " ")

\* The id, the title and the type the claim gives the note decoded from f;
\* an empty first heading counts as no heading when empty_is_none.
ExpectedId(f) == IF NoIdIn(f) THEN f.name[1] ELSE f.text.header.id[1]
ExpectedTitle(f, empty_is_none) ==
    IF ~NoTitleIn(f) THEN f.text.header.title[1]
    ELSE IF HeadingLines(f) # <<>>
            /\ (empty_is_none => Strip(Tail(Tail(HeadingLines(f)[1]))) # <<>>)
    THEN Strip(Tail(Tail(HeadingLines(f)[1])))
    ELSE <<"Untitled Note", " ", ExpectedId(f)>>
ExpectedType(f) ==
    IF f.text.header.type # <<>> /\ f.text.header.type[1] \in NoteTypes
    THEN f.text.header.type[1] ELSE "permanent"

Ind(b) == IF b THEN 1 ELSE 0

\* What a call migrate_note(f) with valid dates has done in this step:
\* the decode gave a note with the expected id, title and type, which was
\* passed to create, and the report has the given number of warnings more.
DecodeOutcome(f, empty_is_none, new_warnings) ==
    /\ report'.errors = report.errors
        \/ report'.errors[Len(report'.errors)] # "Failed to parse note"
    /\ last'.op = "create" /\ last'.id = ExpectedId(f)
    /\ ExpectedId(f) \notin DOMAIN notes =>
          /\ notes'[ExpectedId(f)].title = ExpectedTitle(f, empty_is_none)
          /\ notes'[ExpectedId(f)].note_type = ExpectedType(f)
    /\ Len(report'.warnings) = Len(report.warnings) + new_warnings

\* C20 as stated: the migrator's decode of a file with valid dates gives a
\* note whose id is the header's or else the file-name stem, whose title
\* is the header's or else the first level-1 heading or else "Untitled
\* Note <id>", whose type is the header's or else permanent, and records
\* one warning for each of the three that was substituted.
C20_EverySubstitutionWarns ==
    [][\A f \in MigrateFiles :
          (call'.op = "migrate_note" /\ call'.file = f /\ DatesValid(f)) =>
              DecodeOutcome(f, FALSE,
                  Ind(NoIdIn(f)) + Ind(NoTitleIn(f)) + Ind(UnknownTypeIn(f)))]_vars

\* C20 amended: as above, but a first heading without text counts as no
\* heading, and a title taken from a heading records no warning: the
\* warnings are one for a substituted id, one for an "Untitled Note"
\* title and one for an unknown type.
C20_SubstitutionsNeverFail ==
    [][\A f \in MigrateFiles :
          (call'.op = "migrate_note" /\ call'.file = f /\ DatesValid(f)) =>
              DecodeOutcome(f, TRUE,
                  Ind(NoIdIn(f))
                  + Ind(ExpectedTitle(f, TRUE) = <<"Untitled Note", " ", ExpectedId(f)>>)
                  + Ind(UnknownTypeIn(f)))]_vars

\* c.md without id, title and header has been migrated as "Untitled Note
\* c" with two warnings, after b.md; or c.md with a heading for a title has
\* been migrated without any warning.
C20_Witness ==
    /\ call.op = "migrate_note" /\ "c" \in DOMAIN notes
    /\ \/ /\ call.file = FilePlain
           /\ notes["c"].title = <<"Untitled Note", " ", "c">>
           /\ Len(report.warnings) = 2
       \/ /\ call.file = FileHeading
           /\ notes["c"].title = <<"h">>
           /\ report.warnings = <<>>

\* The number of entries of the issues with the given text.
IssueCount(issues, text) == Len(SelectSeq(issues, LAMBDA e : e.issue = text))

\* C19: verify_migration returns valid exactly when issues is empty; the
\* issues are one for a count mismatch between the markdown files and the
\* stored notes, one per file that does not decode, one per decoded file
\* whose id is not stored, and for each decoded file whose id is stored
\* one per differing field among title, content, type and tag set.
C19_VerifyCollectsIssues ==
    Returned("verify_migration") =>
        LET files == SelectSeq(call.dir, LAMBDA f : f.suffix \notin {"json", "txt"})
            issues == call.returned.issues
            note(i) == MigratorParse(files[i], call.stat, call.now).note
            good == {i \in 1..Len(files) : DatesValid(files[i])}
            stored == {i \in good : note(i).id \in DOMAIN notes}
        IN  /\ call.returned.valid = (issues = <<>>)
            /\ IssueCount(issues, "Count mismatch")
                  = Ind(Len(files) # Cardinality(DOMAIN notes))
            /\ IssueCount(issues, "Could not parse")
                  = Len(files) - Cardinality(good)
            /\ IssueCount(issues, "not found in database")
                  = Cardinality(good \ stored)
            /\ IssueCount(issues, "Title mismatch")
                  = Cardinality({i \in stored : note(i).title # notes[note(i).id].title})
            /\ IssueCount(issues, "Content mismatch")
                  = Cardinality({i \in stored :
                                    note(i).content # notes[note(i).id].content})
            /\ IssueCount(issues, "Type mismatch")
                  = Cardinality({i \in stored :
                                    note(i).note_type # notes[note(i).id].note_type})
            /\ IssueCount(issues, "Tags mismatch")
                  = Cardinality({i \in stored : note(i).tags # note_tags[note(i).id]})
            /\ \A k \in 1..Len(issues) :
                  issues[k].issue \in
                      {"Count mismatch", "Could not parse", "not found in database",
                       "Title mismatch", "Content mismatch", "Type mismatch",
                       "Tags mismatch"}

\* b.md was migrated and the directory now holds a version of it with
\* another type and other tags: two issues, not valid.
C19_Witness ==
    /\ Returned("verify_migration") /\ call.dir = <<FileBTypeTags, FileMetadata>>
    /\ DOMAIN notes = {"b"}
    /\ ~call.returned.valid
    /\ call.returned.issues = <<[issue |-> "Type mismatch", of |-> "b"],
                                [issue |-> "Tags mismatch", of |-> "b"]>>

\* C21: migrate_note on a plain text file without header, id, title and
\* heading returns False: it counts one failed migration and creates no
\* note.
C21_PlainFileFails ==
    [][(call'.op = "migrate_note" /\ call'.file = FilePlain) =>
          /\ report'.failed_migrations = report.failed_migrations + 1
          /\ report'.successful_migrations = report.successful_migrations
          /\ notes' = notes]_vars

-----------------------------------------------------------------------------
(* Statistics of the repository                                            *)

RECURSIVE CountRows(_)
\* The number of rows of the links table with a source among ids.
CountRows(ids) ==
    IF ids = {} THEN 0
    ELSE LET s == CHOOSE s \in ids : TRUE
         IN  Len(links[s]) + CountRows(ids \ {s})

\* get_statistics: the row counts of the three tables and the notes grouped
\* by type; a type without a note has no entry.
GetStatistics ==
    [total_notes |-> Cardinality(DOMAIN notes),
     total_tags |-> Cardinality(tags),
     total_links |-> CountRows(Ids),
     notes_by_type |->
        [k \in {notes[i].note_type : i \in DOMAIN notes} |->
            Cardinality({i \in DOMAIN notes : notes[i].note_type = k})]]

\* C22: get_statistics reports the number of stored notes, the number of
\* distinct tag names carried by the stored notes, the number of stored
\* links, and for every type the number of stored notes of that type.
C22_StatisticsMatchStore ==
    LET stats == GetStatistics
    IN  /\ stats.total_notes = Cardinality(DOMAIN notes)
        /\ stats.total_tags = Cardinality(UNION {Read(i).tags : i \in DOMAIN notes})
        /\ stats.total_links
             = Cardinality({<<i, k>> \in (DOMAIN notes) \X (1..MaxLinks) :
                               k <= Len(Read(i).links)})
        /\ \A t \in NoteTypes :
              Cardinality({i \in DOMAIN notes : Read(i).note_type = t})
                = IF t \in DOMAIN stats.notes_by_type
                  THEN stats.notes_by_type[t] ELSE 0

-----------------------------------------------------------------------------
(* The exporter: the store is filled, then exported page by page           *)

MaxBatch == 2

\* list(limit, offset): the notes from position offset on, at most limit of
\* them, most recently updated first.
ListFromIgnoringOffset(limit, offset) ==
    LET ids == OrderByUpdatedDesc(DOMAIN notes)
        n == IF Len(ids) < limit THEN Len(ids) ELSE limit
    IN  [i \in 1..n |-> DbNoteToNote(ids[i])]

ListFrom(limit, offset) ==
    LET ids == OrderByUpdatedDesc(DOMAIN notes)
        rest == IF offset >= Len(ids) THEN 0 ELSE Len(ids) - offset
        n == IF rest < limit THEN rest ELSE limit
    IN  [i \in 1..n |-> DbNoteToNote(ids[offset + i])]

\* open(file_path, "w") and write: the file replaces one of the same name.
WriteFile(dir, file) ==
    {f \in dir : f.name # file.name \/ f.suffix # file.suffix} \cup {file}

\* export_all_notes up to its loop: the total is read from get_statistics.
ExportAllNotesStart(batch_size) ==
    /\ export_stats' = [export_stats EXCEPT !.total_notes = GetStatistics.total_notes]
    /\ call' = [op |-> "export_all_notes", pc |-> "export", n |-> call.n + 1,
                 batch_size |-> batch_size, offset |-> 0, written |-> <<>>,
                 stats0 |-> export_stats, returned |-> NoExportStats]
    /\ UNCHANGED export_dir

\* One round of the while loop: a page is listed, each of its notes is
\* written to <id>.md and counted, and the offset moves on by batch_size.
ExportAllNotesPage ==
    LET page == ListFrom(call.batch_size, call.offset)
    IN  /\ export_dir' =
              {f \in export_dir :
                  \A i \in 1..Len(page) : f.name # <<page[i].id>> \/ f.suffix # "md"}
              \cup {FileOf(page[i]) : i \in 1..Len(page)}
        /\ export_stats' = [export_stats EXCEPT !.exported = @ + Len(page)]
        /\ call' = [call EXCEPT !.offset = @ + call.batch_size,
                                !.written = @ \o [i \in 1..Len(page) |-> page[i].id]]

\* After the loop: _export_metadata.json is written, the statistics returned.
ExportAllNotesReturns ==
    /\ export_dir' = WriteFile(export_dir, FileMetadata)
    /\ call' = [call EXCEPT !.pc = "done", !.returned = export_stats]
    /\ UNCHANGED export_stats

DoExportAllNotes ==
    /\ Idle
    /\ \E batch_size \in 1..MaxBatch : ExportAllNotesStart(batch_size)
    /\ UNCHANGED <<store, last, codec, import_stats, report, sessions>>

ExportPage ==
    /\ call.pc = "export"
    /\ call.offset < export_stats.total_notes
    /\ ExportAllNotesPage
    /\ UNCHANGED <<store, last, codec, import_stats, report, sessions>>

ExportDone ==
    /\ call.pc = "export"
    /\ ~(call.offset < export_stats.total_notes)
    /\ ExportAllNotesReturns
    /\ UNCHANGED <<store, last, codec, import_stats, report, sessions>>

\* Notes are created only between the runs of the exporter.
FillStore == call.pc = "done" /\ DoCreate

NextExport == FillStore \/ DoExportAllNotes \/ ExportPage \/ ExportDone

SpecExport == Init /\ [][NextExport]_vars


-----------------------------------------------------------------------------
(* Properties of the generated Links section                               *)

\* A line of the content begins with the "## Links" heading.
LineBeginsWithLinks(content) ==
    \E i \in 1..Len(Split(content, NL)) : StartsWith(Split(content, NL)[i], LinksHeading)

\* The bullet of a link: kind, target in double brackets, description if any.
BulletOf(link) ==
    <<"-", " ", link.link_type, " ", "[[", link.target_id, "]]">>
    \o (IF link.description = NoDesc THEN <<>> ELSE <<" ">> \o link.description[1])

RECURSIVE BulletLines(_)
BulletLines(ls) ==
    IF ls = <<>> THEN <<>>
    ELSE <<NL>> \o BulletOf(Head(ls)) \o BulletLines(Tail(ls))

\* C24: the body of the exported text is the trimmed content followed by a
\* generated Links section with one bullet per link, in order, exactly when
\* the note has a link and no line of its content begins with "## Links";
\* otherwise it is the trimmed content alone.
C24_LinksSectionIffNoHeadingLine ==
    codec.phase \in {"exported", "parsed", "reexported"} =>
        codec.text.body =
            IF codec.note.links # <<>> /\ ~LineBeginsWithLinks(codec.note.content)
            THEN Strip(codec.note.content) \o <<NL, NL>> \o LinksHeading
                 \o BulletLines(codec.note.links)
            ELSE Strip(codec.note.content)

-----------------------------------------------------------------------------
(* Properties of the decoded links                                         *)

\* The target, kind and description the claim gives the link of a bullet
\* line: the description is absent when no text follows the brackets.
LinkOfBullet(line) ==
    LET before == Strip(SubSeq(line, 3, IndexOf(line, "[[") - 1))
        after == SplitOnce(SplitOnce(line, "[[")[2], "]]")
    IN  [target_id |-> Word(Strip(after[1])),
         link_type |-> IF Len(before) = 1 /\ before[1] \in LinkTypes
                       THEN before[1] ELSE "reference",
         description |-> IF Strip(after[2]) = <<>> THEN NoDesc
                         ELSE Some(Strip(after[2]))]

RECURSIVE LinksOfSection(_, _)
\* The links of the bullet lines with a double-bracket target that lie in a
\* Links section, in line order.
LinksOfSection(lines, inside) ==
    IF lines = <<>> THEN <<>>
    ELSE LET line == Strip(Head(lines))
         IN  IF StartsWith(line, LinksHeading) THEN LinksOfSection(Tail(lines), TRUE)
             ELSE IF inside /\ StartsWith(line, H2)
             THEN LinksOfSection(Tail(lines), FALSE)
             ELSE (IF /\ inside /\ StartsWith(line, Bullet)
                      /\ IndexOf(line, "[[") # 0 /\ IndexOf(line, "]]") # 0
                   THEN <<LinkOfBullet(line)>> ELSE <<>>)
                  \o LinksOfSection(Tail(lines), inside)

\* C25: the links decoded from a text are those of the bullet lines with a
\* double-bracket target inside its Links sections, in line order: the
\* kind is the text before the brackets or reference when that is no known
\* kind, the description the text after the brackets or absent when there
\* is none; the decode does not fail.
C25_LinksDecodedFromSection ==
    codec.phase \in {"parsed", "reexported"} =>
        /\ codec.decoded.ok
        /\ [i \in 1..Len(codec.decoded.note.links) |->
               [target_id |-> codec.decoded.note.links[i].target_id,
                link_type |-> codec.decoded.note.links[i].link_type,
                description |-> codec.decoded.note.links[i].description]]
           = LinksOfSection(Split(Strip(codec.text.body), NL), FALSE)

-----------------------------------------------------------------------------
(* Properties of the decoded timestamps                                    *)

\* The values the claim allows for a timestamp decoded from the header
\* value v: the value itself when it is a date, otherwise the time of the
\* call or a time of the file.
AllowedTime(v, stat, now) ==
    IF v # <<>> /\ DOMAIN v[1] = {"iso"} THEN {v[1].iso}
    ELSE {now, stat.st_ctime, stat.st_mtime}

\* C26: a file whose created or updated header value is absent or is no
\* date is still decoded to a note, is not counted as a failure, and the
\* timestamp is the time of the call or of the file.
C26_BadTimestampsDefault ==
    [][\A f \in MigrateFiles :
          (/\ call'.op = "migrate_note" /\ call'.file = f
           /\ ExpectedId(f) \notin DOMAIN notes) =>
              /\ report'.failed_migrations = report.failed_migrations
              /\ ExpectedId(f) \in DOMAIN notes'
              /\ notes'[ExpectedId(f)].created_at
                   \in AllowedTime(f.text.header.created, call'.stat, call'.now)
              /\ notes'[ExpectedId(f)].updated_at
                   \in AllowedTime(f.text.header.updated, call'.stat, call'.now)]_vars

-----------------------------------------------------------------------------
(* Concurrent updates: each call works in a Session of its own             *)

\* The row in the notes table after the flush of a Session that loaded the
\* row as loaded and then assigned the core fields of item: the UPDATE sets
\* the columns whose assigned value differs from the loaded one, and every
\* other column keeps the value it has in the table.
FlushedRow(row, loaded, item, now) ==
    LET assigned == UpdatedRow(loaded, item, now)
    IN  [f \in DOMAIN row |-> IF assigned[f] # loaded[f] THEN assigned[f] ELSE row[f]]

\* update up to the assignment of the core fields: the row is selected, and
\* the new values are held in the Session.
UpdateLoads(p, item, now) ==
    IF ~NoteExists(item.id)
    THEN /\ sessions' = [sessions EXCEPT ![p] = [pc |-> "raised"]]
         /\ last' = [op |-> "update", id |-> item.id, result |-> "NotFound",
                     arg |-> NoNote, now |-> 0]
    ELSE /\ sessions' = [sessions EXCEPT ![p] =
                            [pc |-> "loaded", item |-> item, now |-> now,
                             loaded |-> notes[item.id]]]
         /\ UNCHANGED last

\* The rest of update: the first flush begins the write transaction, the
\* tag rows and link rows are replaced inside it, and commit ends it.  The
\* store admits one write transaction at a time and shows none of its
\* writes before the commit, so the transaction is one step.
UpdateCommits(p) ==
    LET item == sessions[p].item
    IN  /\ notes' = [notes EXCEPT ![item.id] =
                        FlushedRow(@, sessions[p].loaded, item, sessions[p].now)]
        /\ tags' = tags \cup item.tags
        /\ note_tags' = [note_tags EXCEPT ![item.id] = UpdatedTags(@, item)]
        /\ links' = [links EXCEPT ![item.id] = UpdatedLinks(@, item, DOMAIN notes)]
        /\ last' = [op |-> "update", id |-> item.id, result |-> "ok",
                     arg |-> item, now |-> sessions[p].now]
        /\ sessions' = [sessions EXCEPT ![p] = [pc |-> "committed", item |-> item]]

\* Notes are created before the concurrent calls begin.
CreateFirst ==
    /\ sessions = NoSessions
    /\ DoCreate

DoUpdateLoad ==
    /\ \E p \in Procs, item \in ArgNotes, now \in Times :
          /\ sessions[p].pc = "idle"
          /\ UpdateLoads(p, item, now)
    /\ UNCHANGED <<store, codec, import_stats, call, report, export_stats, export_dir>>

DoUpdateCommit ==
    /\ \E p \in Procs :
          /\ sessions[p].pc = "loaded"
          /\ UpdateCommits(p)
    /\ UNCHANGED <<codec, import_stats, call, report, export_stats, export_dir>>

NextConcurrent == CreateFirst \/ DoUpdateLoad \/ DoUpdateCommit

SpecConcurrent == Init /\ [][NextConcurrent]_vars

\* C27: when two update calls for the same id have both committed, the
\* stored note has the title, content, kind, metadata and tag set of the
\* argument of the call that committed last, and the links of that
\* argument whose target is stored.
C27_LastCommitWinsWhole ==
    (/\ \A p \in Procs : sessions[p].pc = "committed"
     /\ \A p \in Procs : sessions[p].item.id = last.id) =>
        LET stored == Read(last.id)
        IN  /\ stored.title = last.arg.title
            /\ stored.content = last.arg.content
            /\ stored.note_type = last.arg.note_type
            /\ stored.metadata = last.arg.metadata
            /\ stored.tags = last.arg.tags
            /\ stored.links
                 = SelectSeq(last.arg.links, LAMBDA l : l.target_id \in DOMAIN notes)

-----------------------------------------------------------------------------
(* Referential integrity of the links table                                *)

-----------------------------------------------------------------------------
(* Links and the order of a bulk load                                      *)

\* The position of the first note with the id in a sequence of notes.
FirstOf(found, id) ==
    CHOOSE i \in 1..Len(found) :
        found[i].id = id /\ \A j \in 1..(i - 1) : found[j].id # id

\* The targets of the links of note that are persisted before it when the
\* notes of order are persisted one after the other, in link order.
TargetsBefore(note, order) ==
    LET k == FirstOf(order, note.id)
        kept == SelectSeq(note.links,
                    LAMBDA l : \E j \in 1..(k - 1) : order[j].id = l.target_id)
    IN  [i \in 1..Len(kept) |-> kept[i].target_id]

StoredTargets(id) == [i \in 1..Len(links[id]) |-> links[id][i].target_id]

\* import_directory without update_existing has loaded an empty store: a
\* note has the links of its first file to the notes whose file came earlier.
LoadedInFileOrder ==
    (Returned("import_directory") /\ call.ids0 = {} /\ ~call.update_existing) =>
        LET found == Encountered(<<call.dir>>, call.now)
        IN  \A i \in 1..Len(found) :
               i = FirstOf(found, found[i].id) =>
                  StoredTargets(found[i].id) = TargetsBefore(found[i], found)

\* merge_imports has loaded an empty store: a note has the links of its
\* selected version to the notes whose id was encountered earlier.
MergedInKeyOrder ==
    (Returned("merge_imports") /\ call.ids0 = {}) =>
        LET found == Encountered(call.dirs, call.now)
            firsts == SelectSeq([i \in 1..Len(found) |->
                                    IF i = FirstOf(found, found[i].id)
                                    THEN found[i] ELSE NoNote],
                                LAMBDA n : n # NoNote)
        IN  \A i \in 1..Len(firsts) :
               StoredTargets(firsts[i].id)
                 = TargetsBefore(SelectedFor(firsts[i].id), firsts)

\* A step of import_directory without update_existing leaves every stored
\* note as it is, its links included.
SkipKeepsStored ==
    (call'.op = "import_directory" /\ ~call'.update_existing) =>
        \A id \in DOMAIN notes :
            /\ id \in DOMAIN notes'
            /\ notes'[id] = notes[id]
            /\ links'[id] = links[id]

-----------------------------------------------------------------------------
(* Timestamps under create and update                                      *)

\* The updated timestamp the header of a file carries, if any.
FileUpdated(file) == Loads(file.text).metadata.updated

\* The row of the last successful update holds the time of that call.
UpdateStampsCallTime ==
    (last.op = "update" /\ last.result = "ok")
        => /\ NoteExists(last.id)
           /\ notes[last.id].updated_at = last.now

\* The row of the last successful create holds the updated timestamp of
\* the argument.
CreateStoresGivenStamp ==
    (last.op = "create" /\ last.result = "ok")
        => /\ NoteExists(last.id)
           /\ notes[last.id].updated_at = last.arg.updated_at

\* A successful update adds and removes no id and leaves the created
\* timestamp of its note as it was.
UpdateKeepsIdAndCreated ==
    (last' # last /\ last'.op = "update" /\ last'.result = "ok")
        => /\ last'.id \in DOMAIN notes
           /\ DOMAIN notes' = DOMAIN notes
           /\ notes'[last'.id].created_at = notes[last'.id].created_at

\* A file that import_directory counts as updated leaves the time of the
\* run in its note, not the updated timestamp of its header.
ImportUpdateDropsFileStamp ==
    (/\ call.pc = "import" /\ call.queue # <<>>
     /\ import_stats'.updated > import_stats.updated)
        => LET file == Head(call.queue)
               id == Loads(file.text).metadata.id[1]
           IN  /\ notes'[id].updated_at = call.now
               /\ FileUpdated(file) # <<>>
                    => notes'[id].updated_at # FromIsoFormat(FileUpdated(file)[1])

\* A version that merge_imports lays onto a stored id leaves the time of
\* the run in its note, not the updated timestamp it was parsed with.
MergeUpdateDropsFileStamp ==
    (/\ call.pc = "merge" /\ call.queue # <<>>
     /\ NoteExists(Head(call.queue).id)
     /\ call'.pc = "merge")
        => LET note == Head(call.queue)
           IN  /\ notes'[note.id].updated_at = call.now
               /\ notes'[note.id].updated_at # note.updated_at

\* C30: update leaves the id and the created timestamp of its note unchanged
\* and sets the updated timestamp to the time of the call whatever the
\* argument carries, while create stores the updated timestamp of its
\* argument; so a note written through update by import_directory with
\* update_existing or by merge_imports onto a stored id does not keep the
\* updated timestamp of its file.
C30_UpdateStampsNowCreateKeeps ==
    /\ []UpdateStampsCallTime
    /\ []CreateStoresGivenStamp
    /\ [][UpdateKeepsIdAndCreated]_vars
    /\ [][ImportUpdateDropsFileStamp]_vars
    /\ [][MergeUpdateDropsFileStamp]_vars

\* a.md, exported with the updated timestamp 1, has been imported twice by
\* runs with update_existing: the second run went through update, and the
\* note holds the created timestamp of the file and the time of the run.
C30_Witness ==
    /\ call.op = "import_directory" /\ call.update_existing
    /\ last.op = "update" /\ last.result = "ok" /\ last.id = "a"
    /\ last.arg.updated_at = 1
    /\ FileUpdated(FileA) = Some(IsoFormat(1))
    /\ notes["a"].created_at = 1
    /\ notes["a"].updated_at = call.now
    /\ notes["a"].updated_at # 1
    /\ import_stats.updated >= 1

====
